---- MODULE Spec2Model ----
(***************************************************************************)
(* Model of the network tracer (pkg/gadgets/internal/networktracer) and of *)
(* the socket enricher (pkg/gadgets/internal/socketenricher).              *)
(*                                                                         *)
(* Spec         : one Tracer and the calls of its owner: Attach, Detach    *)
(*                and Close, serialized (the registry has no lock), with   *)
(*                every outcome of the namespace lookup and of the         *)
(*                construction of an attachment. The goroutines, which     *)
(*                touch neither the registry nor the attachments, are      *)
(*                started but take no step here.                           *)
(* SpecStableNs : the same calls when the namespace of a pid does not      *)
(*                change while the pid is attached.                        *)
(* SpecListen   : the calls of one pid in one namespace and the listen     *)
(*                goroutines reading records.                              *)
(* SpecListenFair : SpecListen with at most MaxFairReads records and the  *)
(*                goroutines scheduled fairly.                             *)
(* SpecCallback : Attach and Detach of two pids, each with a callback of   *)
(*                its own, in one namespace, and the listen goroutines.    *)
(* SpecNew      : NewTracer on every template and outcome of the           *)
(*                construction of the enricher, then the calls of one pid. *)
(* SpecSE       : one SocketEnricher, concurrent callers of Close() and    *)
(*                the cleanupDeletedSockets goroutine.                     *)
(* SpecSEFair   : SpecSE with the goroutine scheduled fairly.              *)
(***************************************************************************)
EXTENDS Integers, Sequences, FiniteSets, TLC

\* ------------------------------------------------------------------ bounds
MaxPid == 2
MaxNs == 2
MaxAttach == 2
MaxReads == 2
MaxClosers == 2
MaxSweeps == 2
MaxFairReads == 1

Pids == 1..MaxPid
Netns == 1..MaxNs
Ids == 1..MaxAttach
Closers == 1..MaxClosers

\* sockFd: -1 in a new attachment
NoFd == -1

VARIABLES
    socketEnricher,  \* Tracer.socketEnricher: "nil" or "ptr"
    se,              \* the SocketEnricher object
    attachments,     \* Tracer.attachments: netns -> attachment id, 0 = no entry
    att,             \* the attachment objects ever registered, by id
    nAtt,            \* number of attachment objects registered so far
    built,           \* the object of the last newAttachment call that failed
    ret,             \* the last call on the Tracer, its error, the pid of a Detach
    task,            \* the listen goroutine of each attachment object
    reads,           \* number of records read so far, over all goroutines
    live,            \* history: the namespace each pid is attached in, 0 = none
    cbOf,            \* the eventCallback of each listen goroutine, by the pid
                     \* of the Attach call that passed it; 0 = not followed
    closer,          \* the callers of SocketEnricher.Close()
    sweep            \* the cleanupDeletedSockets goroutine

tracerVars == <<socketEnricher, attachments, att, nAtt, built, ret>>
vars == <<socketEnricher, se, attachments, att, nAtt, built, ret, task, reads,
          live, cbOf, closer, sweep>>

\* ------------------------------------------------------------ attachment
\* closes counts the Close calls on a resource: 0, 1, or 2 for "more than once"
Inc(c) == IF c < 2 THEN c + 1 ELSE 2

NullAtt ==
    [collection |-> "nil", perfRd |-> "nil", sockFd |-> NoFd, users |-> {},
     collCloses |-> 0, rdCloses |-> 0, sockCloses |-> 0,
     table |-> FALSE, failAt |-> "none", abandoned |-> FALSE, log |-> <<>>]

\* the acquisition steps of newAttachment, in the order of the code
Steps == <<"rewrite", "load", "reader", "prog", "sock", "attach">>

StepIdx(s) == CHOOSE i \in 1..Len(Steps) : Steps[i] = s

\* failAt = "none": every step succeeds
FailIdx(failAt) == IF failAt = "none" THEN Len(Steps) + 1 ELSE StepIdx(failAt)

\* rawsock.OpenRawSock: the descriptor it returns, -1 with an error
OpenRawSock(pid, ok) == IF ok THEN 0 ELSE NoFd

\* a.perfRd.Close(), unix.Close(a.sockFd), a.collection.Close(): log keeps
\* the order of the acquisitions and of the Close calls on the object
CloseRes(a, res) ==
    [a EXCEPT !.rdCloses = IF res = "perfRd" THEN Inc(@) ELSE @,
              !.sockCloses = IF res = "sockFd" THEN Inc(@) ELSE @,
              !.collCloses = IF res = "collection" THEN Inc(@) ELSE @,
              !.log = Append(@, <<"close", res>>)]

\* Rollback without "if a.sockFd != -1 { unix.Close(a.sockFd) }"
RollbackNoSock(a) ==
    LET a1 == IF a.perfRd # "nil" THEN CloseRes(a, "perfRd") ELSE a
    IN IF a1.collection # "nil" THEN CloseRes(a1, "collection") ELSE a1

\* Rollback that closes the collection before the reader and the socket
RollbackCollectionFirst(a) ==
    LET a1 == IF a.collection # "nil" THEN CloseRes(a, "collection") ELSE a
        a2 == IF a1.perfRd # "nil" THEN CloseRes(a1, "perfRd") ELSE a1
    IN IF a2.sockFd # NoFd THEN CloseRes(a2, "sockFd") ELSE a2

\* the deferred function of newAttachment, run when err # nil
Rollback(a) ==
    LET a1 == IF a.perfRd # "nil" THEN CloseRes(a, "perfRd") ELSE a
        a2 == IF a1.sockFd # NoFd THEN CloseRes(a1, "sockFd") ELSE a1
    IN IF a2.collection # "nil" THEN CloseRes(a2, "collection") ELSE a2

\* the acquisitions newAttachment has made when step f fails, in its order
Acquired(f) ==
    (IF f > StepIdx("load") THEN <<<<"open", "collection">>>> ELSE <<>>)
    \o (IF f > StepIdx("reader") THEN <<<<"open", "perfRd">>>> ELSE <<>>)
    \o (IF f > StepIdx("sock") THEN <<<<"open", "sockFd">>>> ELSE <<>>)
    \o (IF f > StepIdx("attach") THEN <<<<"open", "attach">>>> ELSE <<>>)

\* newAttachment: the object a after the body has run up to the failing step
\* (or to the end), with the deferred rollback applied when a step failed
newAttachment(pid, netns, enricher, failAt) ==
    LET f == FailIdx(failAt)
        a == [NullAtt EXCEPT
                !.users = {pid},
                !.failAt = failAt,
                !.table = (enricher # "nil") /\ f > StepIdx("load"),
                !.collection = IF f > StepIdx("load") THEN "ptr" ELSE "nil",
                !.perfRd = IF f > StepIdx("reader") THEN "ptr" ELSE "nil",
                !.sockFd = IF f >= StepIdx("sock")
                           THEN OpenRawSock(pid, f > StepIdx("sock"))
                           ELSE NoFd,
                !.log = Acquired(f)]
    IN IF failAt = "none" THEN a ELSE Rollback(a)

\* the steps that can fail: the constants are rewritten only with an enricher
FailPoints(enricher) ==
    {Steps[i] : i \in 1..Len(Steps)}
        \ (IF enricher = "nil" THEN {"rewrite"} ELSE {})

\* ---------------------------------------------------------- SocketEnricher
\* the kprobes and kretprobes start() attaches, in its order
ProbeNames ==
    <<"inet_bind", "inet_bind_ret", "inet6_bind", "inet6_bind_ret",
      "tcp_v4_connect", "tcp_v4_connect_ret", "tcp_v6_connect",
      "tcp_v6_connect_ret", "udp_sendmsg", "udpv6_sendmsg",
      "inet_release", "inet6_release">>

\* the steps of start() that can fail, in its order
StartSteps ==
    <<"asset", "load">> \o ProbeNames
        \o <<"socketsIter", "iterOpen", "iterRead", "cleanupIter">>

\* the links appended to se.links: the probes, then the cleanup iterator
NumLinks == Len(ProbeNames) + 1
CleanupLink == NumLinks

\* f = Len(StartSteps) + 1: no step fails
StartOk == Len(StartSteps) + 1

\* se := &SocketEnricher{}
NewSE ==
    [links |-> <<>>, linkCloses |-> [i \in 1..NumLinks |-> 0],
     loaded |-> FALSE, objsCloses |-> 0,
     done |-> "nil", doneCloses |-> 0, once |-> FALSE, started |-> FALSE]

\* start(): the object when step f fails (or none does)
SEStart(s, f) ==
    LET nProbes == IF f - 3 < 0 THEN 0
                   ELSE IF f - 3 > Len(ProbeNames) THEN Len(ProbeNames)
                   ELSE f - 3
        n == IF f = StartOk THEN NumLinks ELSE nProbes
    IN [s EXCEPT !.loaded = f > 2,
                 !.links = [i \in 1..n |-> IF i > nProbes THEN CleanupLink ELSE i],
                 !.done = IF f = StartOk THEN "open" ELSE "nil",
                 !.started = (f = StartOk)]

\* closeOnce.Do(func() { if se.done != nil { close(se.done) } })
SEOnce(s) ==
    IF s.once THEN s
    ELSE [s EXCEPT !.once = TRUE,
                   !.done = IF @ = "nil" THEN "nil" ELSE "closed",
                   !.doneCloses = IF s.done = "nil" THEN @ ELSE Inc(@)]

\* gadgets.CloseLink(l)
SECloseLink(s, l) == [s EXCEPT !.linkCloses[l] = Inc(@)]

\* for _, l := range links { gadgets.CloseLink(l) }
SECloseLinks(s, links) ==
    [s EXCEPT !.linkCloses =
        [l \in 1..NumLinks |->
            IF \E j \in 1..Len(links) : links[j] = l THEN Inc(@[l]) ELSE @[l]]]

\* se.links = nil
SENil(s) == [s EXCEPT !.links = <<>>]

\* se.objs.Close()
SEObjs(s) == [s EXCEPT !.objsCloses = Inc(@)]

\* Close() run by one caller with no other running
SEClose(s) == SEObjs(SENil(SECloseLinks(SEOnce(s), s.links)))

\* NewSocketEnricher: a failed start() closes the object
NewSocketEnricher(f) ==
    IF f = StartOk THEN SEStart(NewSE, f) ELSE SEClose(SEStart(NewSE, f))

\* ------------------------------------------------------------------ Tracer
Registered == {n \in Netns : attachments[n] # 0}

IsRegistered(id) == \E n \in Netns : attachments[n] = id

UsersOf(n) == IF attachments[n] = 0 THEN {} ELSE att[attachments[n]].users

\* NewTracer that keeps a pointer to the enricher whose start() failed
NewTracerKeepsFailed(declares, seFails) ==
    IF declares THEN "ptr" ELSE "nil"

\* NewTracer: the enricher is created only when the spec declares the sockets
\* map; its construction error is logged and the field stays nil
NewTracer(declares, seFails) ==
    IF declares /\ ~seFails THEN "ptr" ELSE "nil"

\* the error NewTracer returns (line 179)
NewTracerErr(declares, seFails) == "none"

\* a caller of SocketEnricher.Close() before the call
Idle == [pc |-> "idle", links |-> <<>>, i |-> 0]

\* no cleanupDeletedSockets goroutine
NoSweep == [pc |-> "none", n |-> 0, last |-> "none", late |-> FALSE]

NoTask == [pc |-> "none", rec |-> "none", r |-> 0, cb |-> <<>>]

Init ==
    /\ \E declares \in BOOLEAN, seFails \in BOOLEAN :
         socketEnricher = NewTracer(declares, seFails)
    /\ se = IF socketEnricher = "nil" THEN NewSE ELSE NewSocketEnricher(StartOk)
    /\ attachments = [n \in Netns |-> 0]
    /\ att = [i \in Ids |-> NullAtt]
    /\ nAtt = 0
    /\ built = NullAtt
    /\ ret = [op |-> "NewTracer", pid |-> 0, err |-> "none"]
    /\ task = [i \in Ids |-> NoTask]
    /\ reads = 0
    /\ live = [p \in Pids |-> 0]
    /\ cbOf = [i \in Ids |-> 0]
    /\ closer = [c \in Closers |-> Idle]
    /\ sweep = NoSweep

\* NewTracer(spec, ...): declares, whether a map of the spec is the sockets
\* map; f, the step of start() that fails (StartOk: none). The object of a
\* failed NewSocketEnricher has been closed and is dropped.
NewTracerCall(declares, f) ==
    /\ ret.op = "none"
    /\ socketEnricher' = NewTracer(declares, f # StartOk)
    /\ se' = IF declares THEN NewSocketEnricher(f) ELSE se
    /\ sweep' = IF declares /\ f = StartOk
                THEN [NoSweep EXCEPT !.pc = "select"] ELSE sweep
    /\ attachments' = [n \in Netns |-> 0]
    /\ ret' = [op |-> "NewTracer", pid |-> 0,
               err |-> NewTracerErr(declares, f # StartOk)]
    /\ UNCHANGED <<att, nAtt, built, task>>

\* Attach: GetNetNs fails (lines 183-186)
AttachNoNetns(pid) ==
    /\ ret' = [op |-> "Attach", pid |-> 0, err |-> "netns"]
    /\ built' = NullAtt
    /\ UNCHANGED <<socketEnricher, se, attachments, att, nAtt, task>>

\* AttachShared with "a.users = map[uint32]struct{}{pid: {}}"
AttachSharedReplace(pid, netns) ==
    /\ attachments[netns] # 0
    /\ att' = [att EXCEPT ![attachments[netns]].users = {pid}]
    /\ ret' = [op |-> "Attach", pid |-> 0, err |-> "none"]
    /\ built' = NullAtt
    /\ UNCHANGED <<socketEnricher, se, attachments, nAtt, task>>

\* Attach: the namespace has an attachment (lines 187-190)
AttachShared(pid, netns) ==
    /\ attachments[netns] # 0
    /\ att' = [att EXCEPT ![attachments[netns]].users = @ \cup {pid}]
    /\ ret' = [op |-> "Attach", pid |-> 0, err |-> "none"]
    /\ built' = NullAtt
    /\ UNCHANGED <<socketEnricher, se, attachments, nAtt, task>>

\* Attach: newAttachment fails (lines 192-196)
AttachFail(pid, netns, failAt) ==
    /\ attachments[netns] = 0
    /\ failAt \in FailPoints(socketEnricher)
    /\ built' = newAttachment(pid, netns, socketEnricher, failAt)
    /\ ret' = [op |-> "Attach", pid |-> 0, err |-> "create"]
    /\ UNCHANGED <<socketEnricher, se, attachments, att, nAtt, task>>

\* Attach: newAttachment succeeds, the attachment is registered and its
\* listen goroutine started (lines 192-201)
AttachNew(pid, netns) ==
    /\ attachments[netns] = 0
    /\ nAtt < MaxAttach
    /\ nAtt' = nAtt + 1
    /\ att' = [att EXCEPT ![nAtt + 1] =
                 newAttachment(pid, netns, socketEnricher, "none")]
    /\ attachments' = [attachments EXCEPT ![netns] = nAtt + 1]
    /\ task' = [task EXCEPT ![nAtt + 1] = [NoTask EXCEPT !.pc = "read"]]
    /\ ret' = [op |-> "Attach", pid |-> 0, err |-> "none"]
    /\ built' = NullAtt
    /\ UNCHANGED <<socketEnricher, se>>

\* Attach once GetNetNs has returned netns
AttachAt(pid, netns) ==
    \/ AttachShared(pid, netns)
    \/ AttachNew(pid, netns)
    \/ \E failAt \in FailPoints(socketEnricher) : AttachFail(pid, netns, failAt)

Attach(pid) ==
    \/ AttachNoNetns(pid)
    \/ \E netns \in Netns : AttachAt(pid, netns)

\* Released without "unix.Close(a.sockFd)"
ReleasedLeakSocket(a) ==
    [CloseRes(CloseRes(a, "perfRd"), "collection")
        EXCEPT !.abandoned = (a.users # {}), !.users = {}]

\* Released without "a.perfRd.Close()"
ReleasedKeepsReader(a) ==
    [CloseRes(CloseRes(a, "sockFd"), "collection")
        EXCEPT !.abandoned = (a.users # {}), !.users = {}]

\* releaseAttachment: the object after the three Close calls. Once deleted
\* from the registry the object cannot be reached any more: of its users the
\* model keeps only whether some remained.
Released(a) ==
    [CloseRes(CloseRes(CloseRes(a, "perfRd"), "sockFd"), "collection")
        EXCEPT !.abandoned = (a.users # {}), !.users = {}]

\* DetachFound without "if len(a.users) == 0"
DetachFoundAlwaysRelease(pid, netns) ==
    /\ attachments[netns] # 0
    /\ pid \in att[attachments[netns]].users
    /\ att' = [att EXCEPT ![attachments[netns]] =
                 Released([@ EXCEPT !.users = @ \ {pid}])]
    /\ attachments' = [attachments EXCEPT ![netns] = 0]
    /\ ret' = [op |-> "Detach", pid |-> pid, err |-> "none"]
    /\ built' = NullAtt
    /\ UNCHANGED <<socketEnricher, se, nAtt, task>>

\* Detach: the attachment the range reaches first among those that hold pid
\* (the order of a map range is not specified) is the one of netns
DetachFound(pid, netns) ==
    /\ attachments[netns] # 0
    /\ pid \in att[attachments[netns]].users
    /\ LET id == attachments[netns]
           users == att[id].users \ {pid}
       IN IF users = {}
          THEN /\ att' = [att EXCEPT ![id] = Released([@ EXCEPT !.users = users])]
               /\ attachments' = [attachments EXCEPT ![netns] = 0]
          ELSE /\ att' = [att EXCEPT ![id].users = users]
               /\ UNCHANGED attachments
    /\ ret' = [op |-> "Detach", pid |-> pid, err |-> "none"]
    /\ built' = NullAtt
    /\ UNCHANGED <<socketEnricher, se, nAtt, task>>

\* DetachNotAttached with "return nil"
DetachNotAttachedNil(pid) ==
    /\ \A n \in Registered : pid \notin att[attachments[n]].users
    /\ ret' = [op |-> "Detach", pid |-> pid, err |-> "none"]
    /\ built' = NullAtt
    /\ UNCHANGED <<socketEnricher, se, attachments, att, nAtt, task>>

\* Detach: no attachment holds pid (line 274)
DetachNotAttached(pid) ==
    /\ \A n \in Registered : pid \notin att[attachments[n]].users
    /\ ret' = [op |-> "Detach", pid |-> pid, err |-> "notAttached"]
    /\ built' = NullAtt
    /\ UNCHANGED <<socketEnricher, se, attachments, att, nAtt, task>>

Detach(pid) ==
    \/ \E netns \in Netns : DetachFound(pid, netns)
    \/ DetachNotAttached(pid)

\* Close with "delete(t.attachments, key)" in place of releaseAttachment
CloseDeleteOnly ==
    /\ attachments' = [n \in Netns |-> 0]
    /\ se' = IF socketEnricher # "nil" THEN SEClose(se) ELSE se
    /\ ret' = [op |-> "Close", pid |-> 0, err |-> "none"]
    /\ built' = NullAtt
    /\ UNCHANGED <<socketEnricher, att, nAtt, task>>

\* Close: every registered attachment is released, then the enricher closed
Close ==
    /\ att' = [i \in Ids |-> IF IsRegistered(i) THEN Released(att[i]) ELSE att[i]]
    /\ attachments' = [n \in Netns |-> 0]
    /\ se' = IF socketEnricher # "nil" THEN SEClose(se) ELSE se
    /\ ret' = [op |-> "Close", pid |-> 0, err |-> "none"]
    /\ built' = NullAtt
    /\ UNCHANGED <<socketEnricher, nAtt, task>>

\* ------------------------------------------------------------------ listen
\* processEvent: what the decoder returns for a raw sample
processEvent(raw) ==
    CASE raw = "good" -> "event"
      [] raw = "bad" -> "error"
      [] OTHER -> "nil"

\* what rd.Read() can return on an open reader: an error, a record with lost
\* samples, a record with a raw sample
ReadResults == {"err", "lost", "good", "bad", "filtered"}

\* the event the callback gets for t.rec, "none" without a call: an error
\* event for a read error (235) or a decoder error (247), a warning for lost
\* samples (241), the decoded event (253)
Emitted(t) ==
    CASE t.rec = "closed" -> "none"
      [] t.rec = "err" -> "err"
      [] t.rec = "lost" -> "warn"
      [] processEvent(t.rec) = "error" -> "err"
      [] processEvent(t.rec) = "nil" -> "none"
      [] OTHER -> "event"

\* whether the loop returns after t.rec (lines 231, 236)
Returns(t) == t.rec \in {"closed", "err"}

\* Pass with "go eventCallback(ev)": the call can overtake the one before it
PassAsync(t, k, returns) ==
    [t EXCEPT !.pc = IF returns THEN "done" ELSE "read",
              !.cb = IF k = "none" THEN @
                     ELSE IF @ = <<>> THEN <<[k |-> k, r |-> t.r]>>
                     ELSE SubSeq(@, 1, Len(@) - 1)
                            \o <<[k |-> k, r |-> t.r], @[Len(@)]>>]

\* the goroutine after a pass that calls the callback with event k ("none":
\* no call) and returns or not
Pass(t, k, returns) ==
    [t EXCEPT !.pc = IF returns THEN "done" ELSE "read",
              !.cb = IF k = "none" THEN @ ELSE Append(@, [k |-> k, r |-> t.r])]

\* HandleRec with "continue" after the read error event
HandleRecRetry(t) == Pass(t, Emitted(t), t.rec = "closed")

\* HandleRec with types.Err for lost samples
HandleRecLostAsError(t) ==
    Pass(t, IF t.rec = "lost" THEN "err" ELSE Emitted(t), Returns(t))

\* HandleRec with "return" after a decoder error
HandleRecDecodeFatal(t) ==
    Pass(t, Emitted(t), Returns(t) \/ (t.rec = "bad"))

\* one pass of the loop body after rd.Read() returned t.rec (lines 229-254)
HandleRec(t) == Pass(t, Emitted(t), Returns(t))

\* rd.Read() on a closed reader
ReadClosed(id) ==
    /\ task[id].pc = "read"
    /\ att[id].rdCloses > 0
    /\ task' = [task EXCEPT ![id].pc = "handle", ![id].rec = "closed"]
    /\ UNCHANGED reads

\* rd.Read() on an open reader
ReadRecord(id) ==
    /\ task[id].pc = "read"
    /\ att[id].rdCloses = 0
    /\ reads < MaxReads
    /\ reads' = reads + 1
    /\ \E res \in ReadResults :
         task' = [task EXCEPT ![id].pc = "handle", ![id].rec = res,
                              ![id].r = @ + 1]

\* Handle with releaseAttachment after the read error event
HandleReleasesOnError(id) ==
    /\ task[id].pc = "handle"
    /\ task' = [task EXCEPT ![id] = HandleRec(@)]
    /\ IF task[id].rec = "err" /\ IsRegistered(id)
       THEN /\ att' = [att EXCEPT ![id] = Released(@)]
            /\ attachments' =
                 [n \in Netns |-> IF attachments[n] = id THEN 0 ELSE attachments[n]]
       ELSE UNCHANGED <<att, attachments>>
    /\ UNCHANGED <<reads, socketEnricher, nAtt, built, ret>>

\* the pass of the goroutine over the result of its Read(): of the Tracer it
\* uses only the callback and the decoder
Handle(id) ==
    /\ task[id].pc = "handle"
    /\ task' = [task EXCEPT ![id] = HandleRec(@)]
    /\ UNCHANGED <<reads, tracerVars>>

\* --------------------------------------------- SocketEnricher, concurrent
\* NewSocketEnricher(): start() fails at step f or succeeds and starts the
\* cleanupDeletedSockets goroutine; a failed start() closes the object and
\* returns nil, so that nobody can call Close() on it afterwards
SENew(f) ==
    /\ se = NewSE
    /\ se' = NewSocketEnricher(f)
    /\ sweep' = IF f = StartOk THEN [NoSweep EXCEPT !.pc = "select"] ELSE sweep
    /\ UNCHANGED closer

\* Close(), line 214: closeOnce.Do
CloseOnce(c) ==
    /\ se.started
    /\ closer[c].pc = "idle"
    /\ se' = SEOnce(se)
    /\ closer' = [closer EXCEPT ![c].pc = "range"]
    /\ UNCHANGED sweep

\* line 220: the range expression se.links is evaluated once
CloseRange(c) ==
    /\ closer[c].pc = "range"
    /\ closer' = [closer EXCEPT ![c] = [pc |-> "links", links |-> se.links, i |-> 1]]
    /\ UNCHANGED <<se, sweep>>

\* lines 220-222: one iteration of the loop, or its end
CloseNext(c) ==
    /\ closer[c].pc = "links"
    /\ IF closer[c].i <= Len(closer[c].links)
       THEN /\ se' = SECloseLink(se, closer[c].links[closer[c].i])
            /\ closer' = [closer EXCEPT ![c].i = @ + 1]
       ELSE /\ closer' = [closer EXCEPT ![c].pc = "nil"]
            /\ UNCHANGED se
    /\ UNCHANGED sweep

\* line 223
CloseNil(c) ==
    /\ closer[c].pc = "nil"
    /\ se' = SENil(se)
    /\ closer' = [closer EXCEPT ![c].pc = "objs"]
    /\ UNCHANGED sweep

\* line 224, and the return
CloseObjs(c) ==
    /\ closer[c].pc = "objs"
    /\ se' = SEObjs(se)
    /\ closer' = [closer EXCEPT ![c].pc = "ret"]
    /\ UNCHANGED sweep

\* cleanupDeletedSockets: the select takes the ticker case
SweepTick ==
    /\ sweep.pc = "select"
    /\ sweep.n < MaxSweeps
    /\ sweep' = [sweep EXCEPT !.pc = "now"]
    /\ UNCHANGED <<se, closer>>

\* SweepNow with "return" after the error is printed
SweepNowStopsOnError ==
    /\ sweep.pc = "now"
    /\ \E res \in {"ok", "err"} :
         /\ sweep' = [sweep EXCEPT !.pc = IF res = "err" THEN "exit" ELSE "select",
                         !.n = @ + 1, !.last = res,
                         !.late = @ \/ se.linkCloses[CleanupLink] > 0]
    /\ UNCHANGED <<se, closer>>

\* cleanupDeletedSocketsNow: the iterator is opened and read; an error is
\* printed and the loop goes on. late: the iterator link was closed already
SweepNow ==
    /\ sweep.pc = "now"
    /\ \E res \in {"ok", "err"} :
         /\ sweep' = [sweep EXCEPT !.pc = "select", !.n = @ + 1, !.last = res,
                         !.late = @ \/ se.linkCloses[CleanupLink] > 0]
    /\ UNCHANGED <<se, closer>>

\* cleanupDeletedSockets: the select takes the done case
SweepExit ==
    /\ sweep.pc = "select"
    /\ se.done = "closed"
    /\ sweep' = [sweep EXCEPT !.pc = "exit"]
    /\ UNCHANGED <<se, closer>>

\* -------------------------------------------------------------------- specs
Next ==
    /\ \/ \E pid \in Pids : Attach(pid)
       \/ \E pid \in Pids : Detach(pid)
       \/ Close
    /\ UNCHANGED <<reads, live, cbOf, closer, sweep>>

Spec == Init /\ [][Next]_vars

\* GetNetNs returns for a pid the namespace it is attached in, if any
AttachStable(pid, netns) ==
    /\ live[pid] \in {0, netns}
    /\ AttachAt(pid, netns)
    /\ live' = [live EXCEPT ![pid] = IF ret'.err = "none" THEN netns ELSE @]

DetachStable(pid) ==
    /\ Detach(pid)
    /\ live' = [live EXCEPT ![pid] = IF ret'.err = "none" THEN 0 ELSE @]

NextStableNs ==
    /\ \/ \E pid \in Pids :
            \/ AttachNoNetns(pid) /\ UNCHANGED live
            \/ \E netns \in Netns : AttachStable(pid, netns)
       \/ \E pid \in Pids : DetachStable(pid)
       \/ Close /\ live' = [p \in Pids |-> 0]
    /\ UNCHANGED <<reads, cbOf, closer, sweep>>

SpecStableNs == Init /\ [][NextStableNs]_vars

\* A listen goroutine depends neither on the pid that attached nor on the
\* namespace nor on the enricher: SpecListen has one pid attach, detach and
\* attach again in one namespace, on a Tracer without enricher, so that up to
\* MaxAttach goroutines run at a time (those of released attachments included).
ListenPids == {1}
ListenNetns == {1}

InitListen == Init /\ socketEnricher = NewTracer(FALSE, FALSE)

NextListen ==
    \/ /\ \/ \E pid \in ListenPids, netns \in ListenNetns :
                AttachShared(pid, netns) \/ AttachNew(pid, netns)
          \/ \E pid \in ListenPids : Detach(pid)
          \/ Close
       /\ UNCHANGED <<reads, live, cbOf, closer, sweep>>
    \/ /\ \E id \in Ids :
            \/ (ReadClosed(id) \/ ReadRecord(id)) /\ UNCHANGED tracerVars
            \/ Handle(id)
       /\ UNCHANGED <<se, live, cbOf, closer, sweep>>

SpecListen == InitListen /\ [][NextListen]_vars

\* a step of the listen goroutine of attachment id, at most MaxFairReads
\* records being read in all
ListenStep(id) ==
    /\ \/ ReadClosed(id) /\ UNCHANGED tracerVars
       \/ reads < MaxFairReads /\ ReadRecord(id) /\ UNCHANGED tracerVars
       \/ Handle(id)
    /\ UNCHANGED <<se, live, cbOf, closer, sweep>>

NextListenFair ==
    \/ /\ \/ \E pid \in ListenPids, netns \in ListenNetns :
                AttachShared(pid, netns) \/ AttachNew(pid, netns)
          \/ \E pid \in ListenPids : Detach(pid)
          \/ Close
       /\ UNCHANGED <<reads, live, cbOf, closer, sweep>>
    \/ \E id \in Ids : ListenStep(id)

\* the scheduler runs every goroutine that can take a step; a Read() on a
\* closed reader returns
SpecListenFair ==
    InitListen /\ [][NextListenFair]_vars
        /\ \A id \in Ids : WF_vars(ListenStep(id))

\* The callbacks: each pid attaches with a callback of its own. SpecCallback
\* has two pids attach and detach in one namespace on a Tracer that is not
\* closed, and the goroutines.
CbPids == {1, 2}

\* AttachCb that starts a new goroutine, with the callback of the call, when
\* the goroutine of the attachment has returned
AttachCbRestarts(pid, netns, eventCallback) ==
    \/ /\ AttachShared(pid, netns) /\ task[attachments[netns]].pc # "done"
       /\ UNCHANGED cbOf
    \/ /\ attachments[netns] # 0 /\ task[attachments[netns]].pc = "done"
       /\ att' = [att EXCEPT ![attachments[netns]].users = @ \cup {pid}]
       /\ task' = [task EXCEPT ![attachments[netns]].pc = "read"]
       /\ cbOf' = [cbOf EXCEPT ![attachments[netns]] = eventCallback]
       /\ ret' = [op |-> "Attach", pid |-> 0, err |-> "none"]
       /\ built' = NullAtt
       /\ UNCHANGED <<socketEnricher, se, attachments, nAtt>>
    \/ /\ AttachNew(pid, netns)
       /\ cbOf' = [cbOf EXCEPT ![nAtt + 1] = eventCallback]

\* Attach(pid, eventCallback) once GetNetNs has returned netns: the callback
\* is used at line 199 only, as the parameter of the goroutine
AttachCb(pid, netns, eventCallback) ==
    \/ AttachShared(pid, netns) /\ UNCHANGED cbOf
    \/ /\ AttachNew(pid, netns)
       /\ cbOf' = [cbOf EXCEPT ![nAtt + 1] = eventCallback]

NextCallback ==
    \/ /\ \/ \E pid \in CbPids, netns \in ListenNetns : AttachCb(pid, netns, pid)
          \/ \E pid \in CbPids : Detach(pid) /\ UNCHANGED cbOf
       /\ UNCHANGED <<reads, live, closer, sweep>>
    \/ \E id \in Ids : ListenStep(id)

SpecCallback == InitListen /\ [][NextCallback]_vars

InitSE ==
    /\ socketEnricher = "nil"
    /\ se = NewSE
    /\ attachments = [n \in Netns |-> 0]
    /\ att = [i \in Ids |-> NullAtt]
    /\ nAtt = 0
    /\ built = NullAtt
    /\ ret = [op |-> "NewTracer", pid |-> 0, err |-> "none"]
    /\ task = [i \in Ids |-> NoTask]
    /\ reads = 0
    /\ live = [p \in Pids |-> 0]
    /\ cbOf = [i \in Ids |-> 0]
    /\ closer = [c \in Closers |-> Idle]
    /\ sweep = NoSweep

NextSE ==
    /\ \/ \E f \in 1..StartOk : SENew(f)
       \/ \E c \in Closers :
            \/ CloseOnce(c)
            \/ CloseRange(c)
            \/ CloseNext(c)
            \/ CloseNil(c)
            \/ CloseObjs(c)
       \/ SweepTick
       \/ SweepNow
       \/ SweepExit
    /\ UNCHANGED <<tracerVars, task, reads, live, cbOf>>

SpecSE == InitSE /\ [][NextSE]_vars

\* the scheduler runs the goroutine inside cleanupDeletedSocketsNow; a select
\* with several ready cases takes one at random, so that the done case,
\* ready at every select once the channel is closed, is taken in the end
SpecSEFair ==
    SpecSE
        /\ WF_vars(SweepNow /\ UNCHANGED <<tracerVars, task, reads, live, cbOf>>)
        /\ SF_vars(SweepExit /\ UNCHANGED <<tracerVars, task, reads, live, cbOf>>)

\* NewTracer called on every template and with every outcome of start(),
\* then the calls of one pid in one namespace on the Tracer it returned
InitNew ==
    /\ socketEnricher = "nil"
    /\ se = NewSE
    /\ attachments = [n \in Netns |-> 0]
    /\ att = [i \in Ids |-> NullAtt]
    /\ nAtt = 0
    /\ built = NullAtt
    /\ ret = [op |-> "none", pid |-> 0, err |-> "none"]
    /\ task = [i \in Ids |-> NoTask]
    /\ reads = 0
    /\ live = [p \in Pids |-> 0]
    /\ cbOf = [i \in Ids |-> 0]
    /\ closer = [c \in Closers |-> Idle]
    /\ sweep = NoSweep

NextNew ==
    \/ /\ \E declares \in BOOLEAN, f \in 1..StartOk : NewTracerCall(declares, f)
       /\ UNCHANGED <<reads, live, cbOf, closer>>
    \/ /\ ret.op # "none"
       /\ \/ \E pid \in ListenPids :
                \/ AttachNoNetns(pid)
                \/ \E netns \in ListenNetns : AttachAt(pid, netns)
          \/ \E pid \in ListenPids : Detach(pid)
          \/ Close
       /\ UNCHANGED <<reads, live, cbOf, closer, sweep>>

SpecNew == InitNew /\ [][NextNew]_vars

\* ------------------------------------------------------------------- claims
\* C1: with the calls serialized and the namespace of an attached pid stable,
\* each namespace has at most one attachment (every attachment object not yet
\* released is registered, under one namespace), and the users set of the
\* attachment of a namespace is the set of the pids attached in it and not
\* yet detached (so their numbers are equal): an Attach on a namespace that
\* has an attachment only adds the pid.
C1_OneAttachmentPerNamespace ==
    /\ \A n \in Netns : UsersOf(n) = {p \in Pids : live[p] = n}
    /\ \A n \in Netns :
         Cardinality(UsersOf(n)) = Cardinality({p \in Pids : live[p] = n})
    /\ \A n, m \in Registered : attachments[n] = attachments[m] => n = m
    /\ \A i \in 1..nAtt : att[i].collCloses = 0 <=> IsRegistered(i)

\* two pids attached in one namespace, through the path of lines 187-190
C1_Witness ==
    /\ ret.op = "Attach" /\ ret.err = "none"
    /\ \E n \in Registered : Cardinality(UsersOf(n)) = 2
    /\ nAtt = 1

\* C2: a Detach that succeeds removes its pid from one attachment; when other
\* users remain the attachment stays registered and none of its resources is
\* closed; when the pid was the last user the reader, the raw socket and the
\* collection are closed (once each) and the attachment is unregistered, all
\* in the call.
C2_DetachReleasesWithLastUser ==
    [][(ret'.op = "Detach" /\ ret'.err = "none") =>
        \E n \in Registered :
            LET id == attachments[n]
                a == att[id]
                b == att'[id]
            IN /\ ret'.pid \in a.users
               /\ \A i \in Ids \ {id} : att'[i] = att[i]
               /\ \A m \in Netns \ {n} : attachments'[m] = attachments[m]
               /\ IF a.users = {ret'.pid}
                  THEN /\ attachments'[n] = 0
                       /\ b.rdCloses = 1 /\ b.sockCloses = 1 /\ b.collCloses = 1
                  ELSE /\ attachments'[n] = id
                       /\ b = [a EXCEPT !.users = a.users \ {ret'.pid}]
                       /\ b.rdCloses = 0 /\ b.sockCloses = 0 /\ b.collCloses = 0
      ]_vars

\* the last user of an attachment has detached: the attachment is released
C2_Witness ==
    /\ ret.op = "Detach" /\ ret.err = "none"
    /\ \E i \in 1..nAtt :
         /\ ~IsRegistered(i) /\ ~att[i].abandoned
         /\ att[i].rdCloses = 1 /\ att[i].sockCloses = 1 /\ att[i].collCloses = 1

\* the resources newAttachment holds when the step fails
AcquiredBefore(failAt) ==
    CASE failAt = "rewrite" -> {}
      [] failAt = "load" -> {}
      [] failAt = "reader" -> {"collection"}
      [] failAt = "prog" -> {"collection", "perfRd"}
      [] failAt = "sock" -> {"collection", "perfRd"}
      [] failAt = "attach" -> {"collection", "perfRd", "sockFd"}
      [] OTHER -> {"collection", "perfRd", "sockFd"}

\* C3: an Attach that fails in newAttachment leaves the registry, the
\* attachments and the goroutines as they were, and has closed once each
\* resource acquired before the failing step and none of the others.
C3_FailedAttachRollsBack ==
    [][(ret'.op = "Attach" /\ ret'.err = "create") =>
        /\ attachments' = attachments /\ att' = att /\ nAtt' = nAtt
        /\ task' = task
        /\ built'.failAt # "none"
        /\ built'.collCloses =
             IF "collection" \in AcquiredBefore(built'.failAt) THEN 1 ELSE 0
        /\ built'.rdCloses =
             IF "perfRd" \in AcquiredBefore(built'.failAt) THEN 1 ELSE 0
        /\ built'.sockCloses =
             IF "sockFd" \in AcquiredBefore(built'.failAt) THEN 1 ELSE 0
      ]_vars

\* the socket option fails with the three resources held, an attachment of
\* another namespace being registered
C3_Witness ==
    /\ ret.op = "Attach" /\ ret.err = "create"
    /\ built.failAt = "attach"
    /\ built.collCloses = 1 /\ built.rdCloses = 1 /\ built.sockCloses = 1
    /\ Registered # {}

\* C4: a Detach of a pid that no registered attachment has among its users
\* returns the not-attached error and changes neither the registry nor any
\* attachment (users, resources) nor the enricher nor the goroutines.
C4_DetachUnknownPid ==
    [][(/\ ret'.op = "Detach"
        /\ \A n \in Registered : ret'.pid \notin att[attachments[n]].users) =>
        /\ ret'.err = "notAttached"
        /\ UNCHANGED <<attachments, att, nAtt, socketEnricher, se, task>>
      ]_vars

\* the error is returned while an attachment with users is registered
C4_Witness ==
    /\ ret.op = "Detach" /\ ret.err = "notAttached"
    /\ \E n \in Registered : UsersOf(n) # {}

\* C5, as claimed: a registered attachment has users, and no attachment was
\* released while it had users, whatever the calls.
C5_RegisteredIffUsers ==
    \A i \in 1..nAtt :
        /\ IsRegistered(i) => att[i].users # {}
        /\ att[i].rdCloses > 0 => ~att[i].abandoned

\* C5, amended: a registered attachment has users and is not released, an
\* unregistered one is released, and only Close releases an attachment that
\* has users.
C5_OnlyCloseAbandons ==
    /\ [](\A i \in 1..nAtt :
            /\ IsRegistered(i) =>
                 /\ att[i].users # {}
                 /\ att[i].rdCloses = 0 /\ att[i].sockCloses = 0
                 /\ att[i].collCloses = 0
            /\ ~IsRegistered(i) =>
                 att[i].rdCloses = 1 /\ att[i].sockCloses = 1
                 /\ att[i].collCloses = 1)
    /\ [][\A i \in Ids :
            (att'[i].abandoned /\ ~att[i].abandoned) => ret'.op = "Close"]_vars

\* Close has released an attachment that had users
C5_Witness ==
    /\ ret.op = "Close"
    /\ \E i \in 1..nAtt : att[i].abandoned /\ att[i].rdCloses = 1

\* C6: once two Close() calls on a started enricher have returned, the done
\* channel has been closed once and each link and the objects closed once.
C6_CloseTwiceReleasesOnce ==
    (Cardinality({c \in Closers : closer[c].pc = "ret"}) >= 2) =>
        /\ se.doneCloses = 1
        /\ \A l \in 1..NumLinks : se.linkCloses[l] = 1
        /\ se.objsCloses = 1

\* the pass of goroutine id over the record it has read
Handled(id) == task[id].pc = "handle" /\ task'[id] # task[id]

\* C7: a read that fails because the reader is closed ends the goroutine
\* without a call of the callback; a read that fails otherwise ends it after
\* one call with an error event; a goroutine that has ended does nothing more.
C7_ReadErrorEndsTask ==
    [][\A id \in Ids :
        /\ (Handled(id) /\ task[id].rec = "closed") =>
             task'[id].pc = "done" /\ task'[id].cb = task[id].cb
        /\ (Handled(id) /\ task[id].rec = "err") =>
             /\ task'[id].pc = "done"
             /\ task'[id].cb =
                  Append(task[id].cb, [k |-> "err", r |-> task[id].r])
        /\ task[id].pc = "done" => task'[id] = task[id]
      ]_vars

\* a goroutine has ended on a read error, its reader still open, after one
\* error event
C7_Witness ==
    \E id \in 1..nAtt :
        /\ task[id].pc = "done" /\ att[id].rdCloses = 0
        /\ task[id].cb = <<[k |-> "err", r |-> 1]>>

\* C8: a record with lost samples gives one call of the callback, with a
\* warning event, and the goroutine goes on to the next read.
C8_LostSamplesWarn ==
    [][\A id \in Ids :
        (Handled(id) /\ task[id].rec = "lost") =>
            /\ task'[id].pc = "read"
            /\ task'[id].cb =
                 Append(task[id].cb, [k |-> "warn", r |-> task[id].r])
      ]_vars

\* a warning, then the event of the next record
C8_Witness ==
    \E id \in 1..nAtt :
        task[id].cb = <<[k |-> "warn", r |-> 1], [k |-> "event", r |-> 2]>>

\* C9: a record without lost samples gives one call with the decoded event,
\* one call with an error event when the decoder fails, no call when the
\* decoder returns neither; the goroutine goes on to the next read.
C9_DecodeOutcomes ==
    [][\A id \in Ids :
        (Handled(id) /\ task[id].rec \in {"good", "bad", "filtered"}) =>
            /\ task'[id].pc = "read"
            /\ task'[id].cb =
                 CASE task[id].rec = "good" ->
                        Append(task[id].cb, [k |-> "event", r |-> task[id].r])
                   [] task[id].rec = "bad" ->
                        Append(task[id].cb, [k |-> "err", r |-> task[id].r])
                   [] OTHER -> task[id].cb
      ]_vars

\* a decoder error, then the event of the next record
C9_Witness ==
    \E id \in 1..nAtt :
        task[id].cb = <<[k |-> "err", r |-> 1], [k |-> "event", r |-> 2]>>

C11_CloseReleasesAllOnce ==
    [][ret'.op = "Close" =>
        /\ \A n \in Netns : attachments'[n] = 0
        /\ \A i \in 1..nAtt :
             /\ att'[i].rdCloses = 1 /\ att'[i].sockCloses = 1
             /\ att'[i].collCloses = 1
             /\ ~IsRegistered(i) => att'[i] = att[i]
             /\ IsRegistered(i) =>
                  /\ att[i].rdCloses = 0 /\ att[i].sockCloses = 0
                  /\ att[i].collCloses = 0
                  /\ att'[i].abandoned = (att[i].users # {})
        /\ nAtt' = nAtt
        /\ socketEnricher # "nil" =>
             /\ se'.done = "closed" /\ se'.doneCloses = 1
             /\ se'.objsCloses >= 1 /\ se'.links = <<>>
             /\ \A l \in 1..NumLinks : se'.linkCloses[l] = 1
        /\ socketEnricher = "nil" => se' = se
      ]_vars

\* Close has returned on a Tracer with an enricher: one attachment had been
\* released by its last Detach, the other is released by Close with a user
C11_Witness ==
    /\ ret.op = "Close" /\ socketEnricher = "ptr" /\ se.objsCloses = 1
    /\ nAtt = 2
    /\ \E i, j \in 1..nAtt :
         /\ ~att[i].abandoned /\ att[j].abandoned
         /\ att[i].collCloses = 1 /\ att[j].collCloses = 1

\* start() has failed in NewSocketEnricher: the object, never started, has
\* been closed
EnricherFailed == ~se.started /\ se.objsCloses > 0

C13_ReleasedTaskTerminates ==
    /\ \A id \in Ids :
         (id <= nAtt /\ ~IsRegistered(id)) ~> (task[id].pc = "done")
    /\ [][\A id \in Ids :
            /\ (id <= nAtt /\ ~IsRegistered(id) /\ task[id].pc = "read"
                  /\ task'[id] # task[id]) =>
                 task'[id] = [task[id] EXCEPT !.pc = "handle", !.rec = "closed"]
            /\ (Handled(id) /\ task[id].rec = "closed") =>
                 task'[id] = [task[id] EXCEPT !.pc = "done"]
         ]_vars

\* a goroutine that had delivered an event has ended on the reader-closed
\* error after the release of its attachment
C13_Witness ==
    \E id \in 1..nAtt :
        /\ ~IsRegistered(id) /\ att[id].rdCloses = 1
        /\ task[id].pc = "done" /\ task[id].rec = "closed"
        /\ task[id].cb = <<[k |-> "event", r |-> 1]>>

\* C14: the calls of the callback made by the goroutine of an attachment are
\* in the order in which their records were read: each record read gives at
\* most one call, made before the next record is read, so that the read
\* indexes of the calls increase along the sequence of calls.
C14_CallbackOrderIsReadOrder ==
    \A id \in Ids :
        /\ \A i, j \in 1..Len(task[id].cb) :
             i < j => task[id].cb[i].r < task[id].cb[j].r
        /\ \A i \in 1..Len(task[id].cb) :
             task[id].cb[i].r \in 1..task[id].r
        /\ (task[id].pc = "handle" /\ task[id].rec # "closed"
              /\ task[id].cb # <<>>) =>
             task[id].cb[Len(task[id].cb)].r < task[id].r

\* two records read by one goroutine have each given an event
C14_Witness ==
    \E id \in 1..nAtt :
        task[id].cb = <<[k |-> "event", r |-> 1], [k |-> "event", r |-> 2]>>

\* the resources of attachment id are as they were and id is registered
Kept(id) ==
    /\ \E n \in Netns : attachments'[n] = id
    /\ att'[id].rdCloses = att[id].rdCloses
    /\ att'[id].sockCloses = att[id].sockCloses
    /\ att'[id].collCloses = att[id].collCloses

\* C15: the pass in which a goroutine ends on a read error changes neither
\* the registry nor any attachment; afterwards its attachment stays
\* registered with its resources not closed until a Close or the Detach of
\* its last user, and its users change only by an Attach or a Detach.
C15_ReadErrorKeepsAttachment ==
    [][\A id \in Ids :
        /\ (Handled(id) /\ task[id].rec = "err") =>
             /\ UNCHANGED <<attachments, att, nAtt>>
             /\ IsRegistered(id) =>
                  /\ att[id].users # {}
                  /\ att[id].rdCloses = 0 /\ att[id].sockCloses = 0
                  /\ att[id].collCloses = 0
        /\ (task[id].pc = "done" /\ task[id].rec = "err" /\ IsRegistered(id)) =>
             /\ \/ Kept(id)
                \/ ret'.op = "Close"
                \/ ret'.op = "Detach" /\ att[id].users = {ret'.pid}
             /\ \/ att'[id].users = att[id].users
                \/ ret'.op \in {"Attach", "Detach", "Close"}
      ]_vars

\* a goroutine has ended on a read error and its attachment is registered,
\* with its user and its resources, after a further Attach of that user
C15_Witness ==
    \E id \in 1..nAtt :
        /\ task[id].pc = "done" /\ task[id].rec = "err"
        /\ IsRegistered(id) /\ att[id].users # {}
        /\ att[id].rdCloses = 0 /\ att[id].sockCloses = 0
        /\ att[id].collCloses = 0
        /\ ret.op = "Attach" /\ ret.err = "none"

\* the acquisitions and the Close calls of a newAttachment that fails at the
\* step, in their order
ExpectedLog(failAt) ==
    CASE failAt \in {"rewrite", "load"} -> <<>>
      [] failAt = "reader" ->
            <<<<"open", "collection">>, <<"close", "collection">>>>
      [] failAt \in {"prog", "sock"} ->
            <<<<"open", "collection">>, <<"open", "perfRd">>,
              <<"close", "perfRd">>, <<"close", "collection">>>>
      [] failAt = "attach" ->
            <<<<"open", "collection">>, <<"open", "perfRd">>,
              <<"open", "sockFd">>, <<"close", "perfRd">>,
              <<"close", "sockFd">>, <<"close", "collection">>>>

\* C16: newAttachment acquires the collection, then the reader, then the raw
\* socket, then attaches the program to the socket; when a step fails the
\* rollback closes the reader, then the socket, then the collection, each
\* only if it was acquired (the socket: if the descriptor is not -1).
C16_AcquireAndRollbackOrder ==
    [][/\ (ret'.op = "Attach" /\ ret'.err = "create") =>
            built'.log = ExpectedLog(built'.failAt)
       /\ nAtt' = nAtt + 1 =>
            att'[nAtt'].log = <<<<"open", "collection">>, <<"open", "perfRd">>,
                                <<"open", "sockFd">>, <<"open", "attach">>>>
      ]_vars

\* the attach of the program has failed: three resources were closed
C16_Witness ==
    /\ ret.op = "Attach" /\ ret.err = "create"
    /\ built.failAt = "attach" /\ Len(built.log) = 6
    /\ built.log[4] = <<"close", "perfRd">>

\* C17: every tick taken by the goroutine of a started enricher runs the
\* cleanup iterator and the goroutine goes back to its select whether the
\* sweep failed or not; the goroutine ends only by the done case, and it
\* does end once the done channel is closed.
C17_SweepUntilShutdown ==
    /\ [][
          /\ (sweep.pc = "select" /\ sweep' # sweep) =>
               \/ sweep' = [sweep EXCEPT !.pc = "now"]
               \/ se.done = "closed" /\ sweep' = [sweep EXCEPT !.pc = "exit"]
          /\ (sweep.pc = "now" /\ sweep' # sweep) =>
               /\ sweep'.pc = "select" /\ sweep'.n = sweep.n + 1
               /\ sweep'.last \in {"ok", "err"}
          /\ (sweep.pc = "exit") => (sweep' = sweep)
         ]_vars
    /\ (sweep.pc = "now") ~> (sweep.pc = "select")
    /\ (se.done = "closed") ~> (sweep.pc = "exit")

\* a tick has started a sweep after the sweep before it failed
C17_Witness ==
    /\ sweep.pc = "now" /\ sweep.last = "err" /\ sweep.n = 1
    /\ se.started

\* C18: cleanupDeletedSocketsNow never runs once Close() has closed the link
\* of the cleanup iterator.
C18_NoSweepAfterLinkClosed == ~sweep.late

\* C19: each attachment created has one goroutine, started by the Attach
\* that created it with the callback of that call; an Attach that finds the
\* attachment of the namespace starts no goroutine and changes the callback
\* of none, also when the goroutine has returned after a read error: a
\* goroutine that has returned is never started again, so that every call
\* made for the namespace is made on the callback of the first attacher.
C19_OneTaskFirstCallback ==
    /\ [](\A i \in Ids :
            /\ task[i].pc # "none" <=> i <= nAtt
            /\ cbOf[i] # 0 <=> i <= nAtt
            /\ task[i].cb # <<>> => cbOf[i] \in CbPids)
    /\ [][
          /\ nAtt' = nAtt + 1 =>
               /\ att'[nAtt'].users = {cbOf'[nAtt']}
               /\ task'[nAtt'] = [NoTask EXCEPT !.pc = "read"]
               /\ \A i \in Ids \ {nAtt'} : task'[i] = task[i]
          /\ (ret'.op = "Attach" /\ nAtt' = nAtt /\ tracerVars' # tracerVars) =>
               task' = task
          /\ \A i \in 1..nAtt :
               /\ cbOf'[i] = cbOf[i]
               /\ task[i].pc = "done" => task'[i] = task[i]
         ]_vars

\* the goroutine started with the callback of pid 1 has returned after a
\* read error; pid 2 has then attached in the namespace
C19_Witness ==
    /\ ret.op = "Attach" /\ ret.err = "none"
    /\ \E n \in Registered :
         /\ UsersOf(n) = {1, 2}
         /\ cbOf[attachments[n]] = 1
         /\ task[attachments[n]].pc = "done"
         /\ task[attachments[n]].cb = <<[k |-> "err", r |-> 1]>>

\* C20: when Detach(pid) has returned without error, no registered
\* attachment has pid among its users.
C20_DetachedPidInNoUsers ==
    (ret.op = "Detach" /\ ret.err = "none") =>
        \A n \in Registered : ret.pid \notin UsersOf(n)

====
